---- MODULE Spec2Model ----
(***************************************************************************)
(* Model of the two crates of the repository:                              *)
(*   MsCorePkg/Crates/RustBootServicesAllocatorDxe  (GLOBAL_ALLOCATOR)     *)
(*   AdvLoggerPkg/Crates/RustAdvancedLoggerDxe      (LOGGER)               *)
(* Addresses and sizes are W-bit machine words.  Memory is modelled at the *)
(* granularity of the 8-byte words an AllocationTracker occupies.          *)
(*                                                                         *)
(* A call is split at its atomic boundaries: entry (the caller starts to   *)
(* spin), lock acquisition, the inner operation run under the lock, and    *)
(* the drop of the guard.  A panic never returns: the caller stops where   *)
(* it is, still holding the lock.  debug_assert! is compiled in or out     *)
(* with the build, which is chosen once, in the initial state.             *)
(*                                                                         *)
(* Each operator modelling a line of the code is preceded by variants of   *)
(* it with a defect (marked "Defect:"), used to show that a property       *)
(* depends on that line.                                                   *)
(*                                                                         *)
(* Specifications:                                                         *)
(*   Spec           the allocator with callers bound by no contract        *)
(*   ContractSpec   the allocator with callers that keep GlobalAlloc's     *)
(*                  contract, and more calls                               *)
(*   FairSpec       the allocator under fair scheduling of its callers     *)
(*   ReentrantSpec  Spec with calls entered from inside a call             *)
(*   LogSpec        the logger                                             *)
(***************************************************************************)
EXTENDS Integers, Sequences, FiniteSets, TLC

\* ------------------------------------------------------------------ bounds
\* Width of usize / of a pointer, in bits.
W == 8
\* Number of 8-byte words the Pool Source manages (its memory starts at 8).
PoolWords == 10
\* Total number of calls made on the allocator in one behaviour.
MaxCalls == 3
\* Total number of calls made in one behaviour of the fair specification.
MaxFairCalls == 3
\* Total number of calls made by callers that keep the allocator's contract.
MaxContractCalls == 5

\* Total number of calls made on the logger in one behaviour.
MaxLogCalls == 3
\* Largest number of write_str calls formatting one message makes.
MaxPieces == 2

\* --------------------------------------------------------- program constants
ALLOC_TRACKER_SIG == 1886351212
\* Standard UEFI debug levels.
DEBUG_INIT == 1
DEBUG_WARN == 2
DEBUG_INFO == 64
\* UEFI pool allocations are 8-byte aligned; alignments 0..=8 take the fast path.
POOL_ALIGN == 8
\* size_of / align_of of AllocationTracker { signature: u32, orig_ptr: *mut c_void }
TrackerSize == 16
TrackerAlign == 8

NULL == 0
UsizeRange == 2 ^ W
IsizeMax == 2 ^ (W - 1) - 1

\* Option<T>: None is the empty sequence, Some(x) a one-element sequence.
None == << >>
Some(x) == << x >>

\* The callers (logical processors) competing for the one allocator instance.
Procs == {1, 2}

\* Boot Services table pointers a caller may pass to init; 0 is the null pointer.
BsHandles == {0, 1, 2}

\* ------------------------------------------------- core::alloc::Layout
RoundUp(n, a) == ((n + a - 1) \div a) * a

\* Layout::from_size_align accepts a power-of-two align with size rounded up
\* to align not above isize::MAX.
IsValidLayout(size, align) ==
  /\ align \in {2 ^ k : k \in 0..(W - 1)}
  /\ size >= 0
  /\ size <= IsizeMax - (align - 1)

Sizes == {0, 20, IsizeMax - 31, IsizeMax - 15}
Aligns == {POOL_ALIGN, 2 * POOL_ALIGN, 4 * POOL_ALIGN, 2 ^ (W - 1)}
\* The requests callers make: every valid pair of the above, and a one-byte
\* request without alignment.
Layouts ==
  {l \in [size : Sizes, align : Aligns] : IsValidLayout(l.size, l.align)}
  \cup {[size |-> 1, align |-> 1]}

\* Defect: extend never fails and wraps instead.
LayoutExtendUnchecked(size, align) ==
  LET new_align == IF align > TrackerAlign THEN align ELSE TrackerAlign
      offset == RoundUp(size, TrackerAlign)
      new_size == offset + TrackerSize
  IN [ok |-> TRUE, size |-> new_size % UsizeRange, align |-> new_align,
      offset |-> offset % UsizeRange]

\* layout.extend(Layout::new::<AllocationTracker>()): Ok((new_layout, offset))
\* or Err when the extended size, rounded up to the new alignment, exceeds
\* isize::MAX.  For a valid layout neither sum below reaches 2^W.
LayoutExtend(size, align) ==
  LET new_align == IF align > TrackerAlign THEN align ELSE TrackerAlign
      offset == RoundUp(size, TrackerAlign)
      new_size == offset + TrackerSize
  IN [ok |-> new_size <= IsizeMax - (new_align - 1),
      size |-> new_size, align |-> new_align, offset |-> offset]

\* Defect: no early return for an unbound allocator.
IsUninitNever(bs) == FALSE

\* let Some(bs_ptr) = self.boot_services else { return ... }
IsUninit(bs) == bs = None

\* Defect: the range 0..8 in place of 0..=8.
IsFastPathExclusive(align) == align \in 0..(POOL_ALIGN - 1)

\* match layout.align() { 0..=8 => fast path, _ => slow path }
IsFastPath(align) == align \in 0..POOL_ALIGN

\* Defect: no slack for the shift of the base pointer.
ExpandedSizeNoSlack(lsize, lalign) == lsize % UsizeRange

\* expanded_layout.size() + expanded_layout.align(), a usize addition.
ExpandedSize(lsize, lalign) == (lsize + lalign) % UsizeRange

\* Defect: the base pointer is not shifted.
AlignOffsetNone(ptr, align) == 0

\* final_ptr.align_offset(align): bytes to add to reach the next multiple.
AlignOffset(ptr, align) == (align - (ptr % align)) % align

\* Defect: the tracker is placed at the start of the usable region.
TrackerAddrAtStart(ptr, tracking_offset) == ptr

\* final_ptr.add(tracking_offset).cast::<AllocationTracker>()
TrackerAddr(ptr, tracking_offset) == ptr + tracking_offset

\* Defect: the shifted pointer is freed.
SlowFreeTargetShifted(ptr, orig_ptr) == ptr

\* The pointer handed to free_pool on the slow path: tracker.orig_ptr.
SlowFreeTarget(ptr, orig_ptr) == orig_ptr

\* Defect: the status is ignored.
IsSuccessAlways(status) == TRUE

\* match (bs.allocate_pool)(..) { Status::SUCCESS => .., _ => null }
IsSuccess(status) == status = "SUCCESS"

\* Defect: dealloc takes the tracker to follow the usable region without padding.
DeallocExtendPacked(size, align) ==
  [LayoutExtend(size, align) EXCEPT !.offset = size]

\* boot_services_dealloc: let (_, tracking_offset) = match layout.extend(..),
\* the same computation alloc made, on the layout the caller presents.
DeallocExtend(size, align) == LayoutExtend(size, align)

\* Defect: a null table pointer unbinds the allocator.
InitBindingNullable(h) == IF h = NULL THEN None ELSE Some(h)

\* init: self.boot_services = Some(boot_services)
InitBinding(h) == Some(h)

\* Defect: the guard is forgotten and the flag stays as it was.
DropGuardForgotten(l) == l

\* Drop of the MutexGuard: the flag is stored as unlocked.
DropGuard(l) == FALSE

\* Defect: the lock is taken without looking at its flag.
TryLockAlways(l) == TRUE

\* spin::Mutex::lock: the compare-exchange succeeds only on an unlocked mutex.
TryLock(l) == l = FALSE

VARIABLES
  boot_services,     \* BootServicesAllocator.boot_services
  locked,            \* the flag of SpinLockedAllocator.inner
  pc,                \* per caller: where it is in its call
  op,                \* per caller: the call it is making
  ret,               \* per caller: the pointer its alloc returned
  trace,             \* per caller: Pool Source calls and tracker accesses of its call
  live,              \* the Pool Source's live blocks
  mem,               \* memory words written so far (address -> value)
  allocs,            \* pointers callers hold: allocations not yet passed to dealloc
  rt,                \* round-trip observation: the latest alloc and the live set before it
  ncalls,            \* calls made so far
  debug_assertions   \* whether the build keeps debug_assert! (cfg(debug_assertions))

\* The logger (LOGGER: LockedAdvancedLogger).
VARIABLES
  protocol,          \* AdvancedLogger.protocol
  level,             \* AdvancedLogger.level
  log_locked,        \* the flag of LockedAdvancedLogger.inner
  lpc,               \* per caller: where it is in its logger call
  lop,               \* per caller: the logger call it is making
  written,           \* the write_log calls the protocol has received, in order
  nlogcalls          \* logger calls made so far

avars == << boot_services, locked, pc, op, ret, trace, live, mem, allocs, rt,
            ncalls, debug_assertions >>
lvars == << protocol, level, log_locked, lpc, lop, written, nlogcalls >>
vars == << avars, lvars >>

\* ------------------------------------------------------------ Pool Source
\* The pool's memory is [8, PoolEnd); every block starts 8-byte aligned.
PoolBases == {POOL_ALIGN * k : k \in 1..PoolWords}
PoolEnd == POOL_ALIGN * (PoolWords + 1)

Disjoint(base, size, b) ==
  /\ base # b.base
  /\ \/ base + size <= b.base
     \/ b.base + b.size <= base

\* allocate_pool(BOOT_SERVICES_DATA, size, &mut ptr): SUCCESS with a fresh block
\* disjoint from every live one written to ptr, or a non-success status with
\* ptr left null or holding a stale value.
AllocPoolResults(size) ==
  {[status |-> "SUCCESS", ptr |-> b, live |-> live \cup {[base |-> b, size |-> size]}] :
     b \in {x \in PoolBases : /\ x + size <= PoolEnd
                              /\ \A blk \in live : Disjoint(x, size, blk)}}
  \cup {[status |-> "OUT_OF_RESOURCES", ptr |-> q, live |-> live] :
          q \in {NULL, POOL_ALIGN}}

\* free_pool(buffer): removes the live block starting at buffer; any other
\* buffer is refused with a status the allocator ignores.
FreePoolResult(buffer) == {b \in live : b.base # buffer}

\* ---------------------------------------------------------------- memory
WriteTracker(m, addr, sig, orig) ==
  [a \in DOMAIN m \cup {addr, addr + 8} |->
     IF a = addr THEN sig ELSE IF a = addr + 8 THEN orig ELSE m[a]]

\* Reading a word that was never written yields an arbitrary value: for a
\* signature MAGIC or not, for a pointer null or the base of a live block.
JunkSignatures == {0, ALLOC_TRACKER_SIG}
JunkPointers == {NULL} \cup {b.base : b \in live}
ReadWord(addr, junk) == IF addr \in DOMAIN mem THEN {mem[addr]} ELSE junk

\* ----------------------------------------------------------- bookkeeping
\* `outer` holds the frame of the call this one interrupted, if any.
NoOp == [kind |-> "none", ptr |-> NULL, size |-> 0, align |-> 1, matching |-> FALSE,
         outer |-> << >>]
\* `status` and `res` are what locate_protocol returned to an init call.
NoLogOp == [kind |-> "none", bs |-> NULL, level |-> 0, pieces |-> 0, done |-> 0,
            id |-> 0, status |-> "none", res |-> NULL]
RtNone == [st |-> "none", ptr |-> NULL, size |-> 0, align |-> 1, pre |-> {}]

\* An event of a call: a Pool Source call with its argument, status and the
\* pointer it produced, or a tracker access with its address and value.
Ev(name, arg, r) == [ev |-> name, arg |-> arg, status |-> r.status, res |-> r.ptr]
Val(v) == [status |-> "SUCCESS", ptr |-> v]

\* Boot Services pointer held by the allocator (null when there is none).
BsPtr(bs) == IF bs = None THEN NULL ELSE bs[1]

\* The inner operation of caller p returns value v having done the events t.
Return(p, v, t) ==
  /\ pc' = [pc EXCEPT ![p] = "unlock"]
  /\ ret' = [ret EXCEPT ![p] = v]
  /\ trace' = [trace EXCEPT ![p] = t]

\* A panic (failed expect / debug assertion) never returns: the caller stops
\* inside the critical section, still holding the lock.
Panic(p, t) ==
  /\ pc' = [pc EXCEPT ![p] = "panicked"]
  /\ trace' = [trace EXCEPT ![p] = t]
  /\ UNCHANGED ret

Init ==
  /\ boot_services = None
  /\ locked = FALSE
  /\ pc = [p \in Procs |-> "idle"]
  /\ op = [p \in Procs |-> NoOp]
  /\ ret = [p \in Procs |-> NULL]
  /\ trace = [p \in Procs |-> << >>]
  /\ live = {}
  /\ mem = [a \in {} |-> 0]
  /\ allocs = {}
  /\ rt = RtNone
  /\ ncalls = 0
  /\ debug_assertions \in BOOLEAN
  /\ protocol = None
  /\ level = DEBUG_INFO
  /\ log_locked = FALSE
  /\ lpc = [p \in Procs |-> "idle"]
  /\ lop = [p \in Procs |-> NoLogOp]
  /\ written = << >>
  /\ nlogcalls = 0

\* ------------------------------------------------------- callers' calls
\* A caller enters init, alloc or dealloc and starts spinning on the lock.
\* The arguments are handed to the inner allocator once the lock is held, so
\* they are drawn there.  `budget` caps the calls of one behaviour.
StartCall(p, kind, budget) ==
  /\ pc[p] = "idle"
  /\ ncalls < budget
  /\ ncalls' = ncalls + 1
  /\ pc' = [pc EXCEPT ![p] = "spin"]
  /\ op' = [op EXCEPT ![p] = [NoOp EXCEPT !.kind = kind]]
  /\ UNCHANGED << boot_services, locked, ret, trace, live, mem, allocs, rt,
                  debug_assertions >>
  /\ UNCHANGED lvars

\* GLOBAL_ALLOCATOR.init(boot_services)
CallInit(p) == StartCall(p, "init", MaxCalls)

\* GlobalAlloc::alloc(layout)
CallAlloc(p) == StartCall(p, "alloc", MaxCalls)

\* GlobalAlloc::dealloc(ptr, layout)
CallDealloc(p) == StartCall(p, "dealloc", MaxCalls)

\* The pointers no alloc call handed out that a caller may pass to dealloc.
WildPointers == {NULL, 2 * POOL_ALIGN}

\* The arguments of a dealloc call: a pointer the callers hold, with the layout
\* it was allocated with or with another one, or a pointer no alloc handed out.
\* `held` is the allocation the callers give up with the call.
DeallocRequests ==
  {[ptr |-> r.ptr, size |-> l.size, align |-> l.align,
    matching |-> (l.size = r.size /\ l.align = r.align), held |-> {r}] :
     r \in allocs, l \in Layouts}
  \cup
  {[ptr |-> q, size |-> l.size, align |-> l.align, matching |-> FALSE, held |-> {}] :
     q \in {w \in WildPointers : \A r \in allocs : r.ptr # w}, l \in Layouts}

\* self.inner.lock(): spin until the compare-exchange succeeds.
Acquire(p) ==
  /\ pc[p] = "spin"
  /\ TryLock(locked)
  /\ locked' = TRUE
  /\ pc' = [pc EXCEPT ![p] = "inner"]
  /\ UNCHANGED << boot_services, op, ret, trace, live, mem, allocs, rt, ncalls,
                  debug_assertions >>
  /\ UNCHANGED lvars

\* The allocation a returned alloc call hands to its caller: the pointer, the
\* layout it was asked with, the pool block behind it and the address of its
\* tracker record (null on the fast path).
Allocation(p) ==
  [ptr |-> ret[p], size |-> op[p].size, align |-> op[p].align,
   base |-> trace[p][1].res,
   tracker |-> IF Len(trace[p]) > 1 THEN trace[p][2].arg ELSE NULL]

\* The MutexGuard is dropped when the call returns.  The caller goes back to
\* the call this one interrupted, if any.
Release(p) ==
  /\ pc[p] = "unlock"
  /\ locked' = DropGuard(locked)
  /\ IF op[p].outer = << >>
     THEN /\ pc' = [pc EXCEPT ![p] = "idle"]
          /\ op' = [op EXCEPT ![p] = NoOp]
          /\ ret' = [ret EXCEPT ![p] = NULL]
          /\ trace' = [trace EXCEPT ![p] = << >>]
     ELSE LET f == op[p].outer[1] IN
          /\ pc' = [pc EXCEPT ![p] = f.pc]
          /\ op' = [op EXCEPT ![p] = f.op]
          /\ ret' = [ret EXCEPT ![p] = f.ret]
          /\ trace' = [trace EXCEPT ![p] = f.trace]
  /\ allocs' = IF op[p].kind = "alloc" /\ ret[p] # NULL
               THEN allocs \cup {Allocation(p)}
               ELSE allocs
  /\ UNCHANGED << boot_services, live, mem, rt, ncalls, debug_assertions >>
  /\ UNCHANGED lvars

\* BootServicesAllocator::init, for a table pointer out of `handles`
InnerInitOf(p, handles) ==
  /\ pc[p] = "inner"
  /\ op[p].kind = "init"
  /\ \E h \in handles :
       /\ op' = [op EXCEPT ![p].ptr = h]
       /\ boot_services' = InitBinding(h)
  /\ rt' = RtNone
  /\ Return(p, NULL, << >>)
  /\ UNCHANGED << locked, live, mem, allocs, ncalls, debug_assertions >>
  /\ UNCHANGED lvars

\* BootServicesAllocator::boot_services_alloc(layout), layout = (size, align)
BootServicesAlloc(p, size, align) ==
     IF IsUninit(boot_services) THEN
       \* bail early if not initialized
       /\ Return(p, NULL, << >>)
       /\ UNCHANGED << live, mem, rt >>
     ELSE IF BsPtr(boot_services) = NULL THEN
       \* expect("Boot Services pointer is null.")
       /\ Panic(p, << >>)
       /\ UNCHANGED << live, mem, rt >>
     ELSE IF IsFastPath(align) THEN
       \E r \in AllocPoolResults(size) :
         LET t == << Ev("alloc_pool", size, r) >> IN
         /\ live' = r.live
         /\ IF IsSuccess(r.status)
            THEN /\ rt' = [st |-> "open", ptr |-> r.ptr, size |-> size,
                           align |-> align, pre |-> live]
                 /\ Return(p, r.ptr, t)
            ELSE /\ rt' = RtNone
                 /\ Return(p, NULL, t)
         /\ UNCHANGED mem
     ELSE
       LET e == LayoutExtend(size, align) IN
       IF ~e.ok THEN
         /\ Return(p, NULL, << >>)
         /\ UNCHANGED << live, mem, rt >>
       ELSE IF debug_assertions /\ e.size + e.align >= UsizeRange THEN
         \* the usize addition traps on overflow in a debug build
         /\ Panic(p, << >>)
         /\ UNCHANGED << live, mem, rt >>
       ELSE
         LET expanded_size == ExpandedSize(e.size, e.align) IN
         \E r \in AllocPoolResults(expanded_size) :
           LET t == << Ev("alloc_pool", expanded_size, r) >> IN
           IF ~IsSuccess(r.status) THEN
             /\ Return(p, NULL, t)
             /\ live' = r.live
             /\ rt' = RtNone
             /\ UNCHANGED mem
           ELSE
             LET orig_ptr == r.ptr
                 final_ptr == orig_ptr + AlignOffset(orig_ptr, e.align)
                 tracker == TrackerAddr(final_ptr, e.offset)
             IN
             /\ live' = r.live
             /\ IF tracker = NULL THEN
                  \* expect("tracking pointer is invalid")
                  /\ Panic(p, t)
                  /\ rt' = RtNone
                  /\ UNCHANGED mem
                ELSE
                  /\ mem' = WriteTracker(mem, tracker, ALLOC_TRACKER_SIG, orig_ptr)
                  /\ rt' = [st |-> "open", ptr |-> final_ptr, size |-> size,
                            align |-> align, pre |-> live]
                  /\ Return(p, final_ptr,
                            Append(t, Ev("write_tracker", tracker, Val(orig_ptr))))

\* SpinLockedAllocator::alloc, once the lock is held, for a layout out of
\* `layouts`
InnerAllocOf(p, layouts) ==
  /\ pc[p] = "inner"
  /\ op[p].kind = "alloc"
  /\ \E l \in layouts :
       /\ op' = [op EXCEPT ![p].size = l.size, ![p].align = l.align]
       /\ BootServicesAlloc(p, l.size, l.align)
  /\ UNCHANGED << boot_services, locked, allocs, ncalls, debug_assertions >>
  /\ UNCHANGED lvars

\* The round trip closes when the first inner operation after an alloc is the
\* dealloc of the pointer it returned, with the same layout.
RtAfterDealloc(d) ==
  IF /\ rt.st = "open" /\ d.matching
     /\ d.ptr = rt.ptr /\ d.size = rt.size /\ d.align = rt.align
  THEN [rt EXCEPT !.st = "done"]
  ELSE RtNone

\* BootServicesAllocator::boot_services_dealloc(ptr, layout) for request d
BootServicesDealloc(p, d) ==
     LET ptr == d.ptr
         size == d.size
         align == d.align
     IN
     IF IsUninit(boot_services) THEN
       \* bail early if not initialized
       /\ Return(p, NULL, << >>)
       /\ UNCHANGED << live, rt >>
     ELSE IF BsPtr(boot_services) = NULL THEN
       \* expect("Boot Services pointer is null.")
       /\ Panic(p, << >>)
       /\ UNCHANGED << live, rt >>
     ELSE IF IsFastPath(align) THEN
       /\ live' = FreePoolResult(ptr)
       /\ rt' = RtAfterDealloc(d)
       /\ Return(p, NULL, << Ev("free_pool", ptr, Val(NULL)) >>)
     ELSE
       LET e == DeallocExtend(size, align) IN
       IF ~e.ok THEN
         /\ Return(p, NULL, << >>)
         /\ UNCHANGED << live, rt >>
       ELSE
         LET tracker == TrackerAddr(ptr, e.offset) IN
         IF tracker = NULL THEN
           \* expect("tracking pointer is invalid")
           /\ Panic(p, << >>)
           /\ rt' = RtNone
           /\ UNCHANGED live
         ELSE
           \E signature \in ReadWord(tracker, JunkSignatures),
              orig_ptr \in ReadWord(tracker + 8, JunkPointers) :
             LET t == << Ev("read_tracker", tracker, Val(signature)) >> IN
             IF debug_assertions /\ signature # ALLOC_TRACKER_SIG THEN
               \* debug_assert_eq!(tracker.signature, ALLOC_TRACKER_SIG)
               /\ Panic(p, t)
               /\ rt' = RtNone
               /\ UNCHANGED live
             ELSE
               LET target == SlowFreeTarget(ptr, orig_ptr) IN
               /\ live' = FreePoolResult(target)
               /\ rt' = RtAfterDealloc(d)
               /\ Return(p, NULL, Append(t, Ev("free_pool", target, Val(NULL))))

\* SpinLockedAllocator::dealloc, once the lock is held, for a request out of
\* `requests`
InnerDeallocOf(p, requests) ==
  /\ pc[p] = "inner"
  /\ op[p].kind = "dealloc"
  /\ \E d \in requests :
       /\ op' = [op EXCEPT ![p].ptr = d.ptr, ![p].size = d.size,
                           ![p].align = d.align, ![p].matching = d.matching]
       /\ allocs' = allocs \ d.held
       /\ BootServicesDealloc(p, d)
  /\ UNCHANGED << boot_services, locked, mem, ncalls, debug_assertions >>
  /\ UNCHANGED lvars

\* The calls of callers bound by no contract: any table pointer, any layout,
\* any pointer.
InnerInit(p) == InnerInitOf(p, BsHandles)
InnerAlloc(p) == InnerAllocOf(p, Layouts)
InnerDealloc(p) == InnerDeallocOf(p, DeallocRequests)

Next ==
  \/ \E p \in Procs : CallInit(p)
  \/ \E p \in Procs : CallAlloc(p)
  \/ \E p \in Procs : CallDealloc(p)
  \/ \E p \in Procs : Acquire(p)
  \/ \E p \in Procs : InnerInit(p)
  \/ \E p \in Procs : InnerAlloc(p)
  \/ \E p \in Procs : InnerDealloc(p)
  \/ \E p \in Procs : Release(p)

Spec == Init /\ [][Next]_vars

\* ------------------------------------------------------- re-entrant calls
CallKinds == {"init", "alloc", "dealloc"}

\* Caller p, holding the lock inside a call, is interrupted (by an interrupt
\* handler, or by code the Pool Source runs) and enters another call on the
\* same allocator, which spins on the lock like any call.  The interrupted
\* call resumes when that call returns.
Reenter(p, kind) ==
  /\ pc[p] \in {"inner", "unlock"}
  /\ ncalls < MaxCalls
  /\ ncalls' = ncalls + 1
  /\ op' = [op EXCEPT ![p] =
              [NoOp EXCEPT !.kind = kind,
                           !.outer = << [pc |-> pc[p], op |-> op[p],
                                         ret |-> ret[p], trace |-> trace[p]] >>]]
  /\ pc' = [pc EXCEPT ![p] = "spin"]
  /\ ret' = [ret EXCEPT ![p] = NULL]
  /\ trace' = [trace EXCEPT ![p] = << >>]
  /\ UNCHANGED << boot_services, locked, live, mem, allocs, rt, debug_assertions >>
  /\ UNCHANGED lvars

ReentrantNext ==
  \/ Next
  \/ \E p \in Procs, kind \in CallKinds : Reenter(p, kind)

ReentrantSpec == Init /\ [][ReentrantNext]_vars

\* Every caller is a processor that keeps executing its call: it retries the
\* compare-exchange while the lock is free, runs the inner operation once it
\* holds the lock (the Pool Source returns), and drops the guard on return.
\* A caller may stop making new calls.
\* The calls are those of Next with fewer arguments to choose from: a null or
\* a valid table, and layouts that take each return path of alloc.
FairHandles == {NULL, 1}
FairLayouts ==
  {[size |-> 1, align |-> 1],
   [size |-> 20, align |-> 2 * POOL_ALIGN],
   [size |-> IsizeMax - 15, align |-> 2 * POOL_ALIGN]}
FairRequests ==
  {d \in DeallocRequests : [size |-> d.size, align |-> d.align] \in FairLayouts}

FairCallInit(p) == StartCall(p, "init", MaxFairCalls)
FairCallAlloc(p) == StartCall(p, "alloc", MaxFairCalls)
FairCallDealloc(p) == StartCall(p, "dealloc", MaxFairCalls)
FairInit(p) == InnerInitOf(p, FairHandles)
FairAlloc(p) == InnerAllocOf(p, FairLayouts)
FairDealloc(p) == InnerDeallocOf(p, FairRequests)

FairNext ==
  \/ \E p \in Procs : FairCallInit(p)
  \/ \E p \in Procs : FairCallAlloc(p)
  \/ \E p \in Procs : FairCallDealloc(p)
  \/ \E p \in Procs : Acquire(p)
  \/ \E p \in Procs : FairInit(p)
  \/ \E p \in Procs : FairAlloc(p)
  \/ \E p \in Procs : FairDealloc(p)
  \/ \E p \in Procs : Release(p)

Fairness ==
  \A p \in Procs :
    /\ WF_vars(Acquire(p))
    /\ WF_vars(FairInit(p) \/ FairAlloc(p) \/ FairDealloc(p))
    /\ WF_vars(Release(p))

FairSpec == Init /\ [][FairNext]_vars /\ Fairness

\* ------------------------------------------- callers that keep the contract
\* GlobalAlloc's contract: init is given a table, and dealloc a pointer an
\* alloc call returned and nobody freed since, with the layout of that call.
ContractHandles == BsHandles \ {NULL}
ContractLayouts ==
  {[size |-> 1, align |-> 1],
   [size |-> 4, align |-> 2 * POOL_ALIGN],
   [size |-> 20, align |-> 2 * POOL_ALIGN]}
ContractRequests ==
  {[ptr |-> r.ptr, size |-> r.size, align |-> r.align, matching |-> TRUE,
    held |-> {r}] : r \in allocs}

ContractCallInit(p) == StartCall(p, "init", MaxContractCalls)
ContractCallAlloc(p) == StartCall(p, "alloc", MaxContractCalls)
ContractCallDealloc(p) == StartCall(p, "dealloc", MaxContractCalls)
ContractInit(p) == InnerInitOf(p, ContractHandles)
ContractAlloc(p) == InnerAllocOf(p, ContractLayouts)
ContractDealloc(p) == InnerDeallocOf(p, ContractRequests)

ContractNext ==
  \/ \E p \in Procs : ContractCallInit(p)
  \/ \E p \in Procs : ContractCallAlloc(p)
  \/ \E p \in Procs : ContractCallDealloc(p)
  \/ \E p \in Procs : Acquire(p)
  \/ \E p \in Procs : ContractInit(p)
  \/ \E p \in Procs : ContractAlloc(p)
  \/ \E p \in Procs : ContractDealloc(p)
  \/ \E p \in Procs : Release(p)

ContractSpec == Init /\ [][ContractNext]_vars

\* ------------------------------------------------------------ the logger
\* Levels callers log at.
LogLevels == {DEBUG_INIT, DEBUG_WARN, DEBUG_INFO}

\* AdvancedLoggerProtocol instances locate_protocol may produce.
LogInterfaces == {2 * POOL_ALIGN, 3 * POOL_ALIGN}

\* locate_protocol(&GUID, null, &mut ptr): SUCCESS with the interface written
\* to ptr, or another status with ptr left null or holding a stale value.
LocateResults ==
  {[status |-> "SUCCESS", ptr |-> i] : i \in LogInterfaces}
  \cup {[status |-> "NOT_FOUND", ptr |-> q] : q \in {NULL} \cup LogInterfaces}

\* Defect: a failed lookup keeps the protocol a previous init found.
LocatedProtocolKept(old, status, ptr) ==
  IF IsSuccess(status) THEN Some(ptr) ELSE old

\* match status { Status::SUCCESS => self.protocol = Some(ptr), _ =>
\* self.protocol = None }, whatever self.protocol was.
LocatedProtocol(old, status, ptr) ==
  IF IsSuccess(status) THEN Some(ptr) ELSE None

\* write_str: let Some(logger) = self.protocol else { return Err(fmt::Error) }
WriteStrFails(prot) == prot = None

LogPanic(p) ==
  /\ lpc' = [lpc EXCEPT ![p] = "panicked"]
  /\ UNCHANGED << protocol, level, log_locked, lop, written, nlogcalls >>

StartLogCall(p, o) ==
  /\ lpc[p] = "idle"
  /\ nlogcalls < MaxLogCalls
  /\ nlogcalls' = nlogcalls + 1
  /\ lpc' = [lpc EXCEPT ![p] = "spin"]
  /\ lop' = [lop EXCEPT ![p] = o]
  /\ UNCHANGED << protocol, level, log_locked, written >>
  /\ UNCHANGED avars

\* init_debug(bs)
LogCallInit(p) ==
  \E bs \in BsHandles :
    StartLogCall(p, [NoLogOp EXCEPT !.kind = "init", !.bs = bs])

\* _log(level, args): formatting args makes `pieces` write_str calls (none for
\* an empty message).
LogCallLog(p) ==
  \E l \in LogLevels, n \in 0..MaxPieces :
    StartLogCall(p, [NoLogOp EXCEPT !.kind = "log", !.level = l, !.pieces = n,
                                    !.id = nlogcalls + 1])

\* self.inner.lock()
LogAcquire(p) ==
  /\ lpc[p] = "spin"
  /\ TryLock(log_locked)
  /\ log_locked' = TRUE
  /\ lpc' = [lpc EXCEPT ![p] = "inner"]
  /\ UNCHANGED << protocol, level, lop, written, nlogcalls >>
  /\ UNCHANGED avars

\* The MutexGuard is dropped when the call returns.
LogRelease(p) ==
  /\ lpc[p] = "unlock"
  /\ log_locked' = DropGuard(log_locked)
  /\ lpc' = [lpc EXCEPT ![p] = "idle"]
  /\ lop' = [lop EXCEPT ![p] = NoLogOp]
  /\ UNCHANGED << protocol, level, written, nlogcalls >>
  /\ UNCHANGED avars

\* AdvancedLogger::init
LogInnerInit(p) ==
  /\ lpc[p] = "inner"
  /\ lop[p].kind = "init"
  /\ IF lop[p].bs = NULL THEN
       \* expect("Boot Services Pointer is NULL")
       LogPanic(p)
     ELSE
       \E r \in LocateResults :
         /\ protocol' = LocatedProtocol(protocol, r.status, r.ptr)
         /\ lop' = [lop EXCEPT ![p].status = r.status, ![p].res = r.ptr]
         /\ lpc' = [lpc EXCEPT ![p] = "unlock"]
         /\ UNCHANGED << level, log_locked, written, nlogcalls >>
  /\ UNCHANGED avars

\* AdvancedLogger::log: self.level = level, then write_fmt starts.
LogInnerLog(p) ==
  /\ lpc[p] = "inner"
  /\ lop[p].kind = "log"
  /\ level' = lop[p].level
  /\ lpc' = [lpc EXCEPT ![p] = "fmt"]
  /\ UNCHANGED << protocol, log_locked, lop, written, nlogcalls >>
  /\ UNCHANGED avars

\* One write_str call made by write_fmt.  An Err ends write_fmt with Err, and
\* expect("Printing to log failed.") then panics.
LogWriteStr(p) ==
  /\ lpc[p] = "fmt"
  /\ lop[p].done < lop[p].pieces
  /\ IF WriteStrFails(protocol) THEN
       LogPanic(p)
     ELSE IF BsPtr(protocol) = NULL THEN
       \* expect("advanced logger protocol is null")
       LogPanic(p)
     ELSE
       /\ written' = Append(written, [this |-> BsPtr(protocol), level |-> level,
                                      id |-> lop[p].id, piece |-> lop[p].done + 1])
       /\ lop' = [lop EXCEPT ![p].done = @ + 1]
       /\ UNCHANGED << protocol, level, log_locked, lpc, nlogcalls >>
  /\ UNCHANGED avars

\* write_fmt returns Ok(()) after the last piece.
LogFmtDone(p) ==
  /\ lpc[p] = "fmt"
  /\ lop[p].done = lop[p].pieces
  /\ lpc' = [lpc EXCEPT ![p] = "unlock"]
  /\ UNCHANGED << protocol, level, log_locked, lop, written, nlogcalls >>
  /\ UNCHANGED avars

LogNext ==
  \/ \E p \in Procs : LogCallInit(p)
  \/ \E p \in Procs : LogCallLog(p)
  \/ \E p \in Procs : LogAcquire(p)
  \/ \E p \in Procs : LogInnerInit(p)
  \/ \E p \in Procs : LogInnerLog(p)
  \/ \E p \in Procs : LogWriteStr(p)
  \/ \E p \in Procs : LogFmtDone(p)
  \/ \E p \in Procs : LogRelease(p)

LogSpec == Init /\ [][LogNext]_vars

\* ------------------------------------------------------------ properties
TypeOK ==
  /\ boot_services \in {None} \cup {Some(h) : h \in BsHandles}
  /\ locked \in BOOLEAN
  /\ pc \in [Procs -> {"idle", "spin", "inner", "unlock", "panicked"}]
  /\ \A p \in Procs : op[p].kind \in {"none", "init", "alloc", "dealloc"}
  /\ \A b \in live : b.base \in PoolBases /\ b.base + b.size <= PoolEnd
  /\ ncalls \in Nat
  /\ debug_assertions \in BOOLEAN

\* The allocator is bound: init has stored a Boot Services pointer.
Bound == boot_services # None

\* Caller p's inner operation of the given kind has just returned; p still
\* holds the lock, so the state is the one the operation left.
Returned(p, kind) == pc[p] = "unlock" /\ op[p].kind = kind

SlowPath(p) == op[p].align > POOL_ALIGN

\* The first event of p's call is an alloc_pool call.
CalledAllocPool(p) == trace[p] # << >> /\ trace[p][1].ev = "alloc_pool"

\* tracking_offset as a function of the request alone: the size rounded up to
\* the tracker's alignment.
TrackingOffsetOf(size) == RoundUp(size, TrackerAlign)

\* The request cannot be extended by one tracker: the extended size, rounded
\* up to the alignment, exceeds the largest signed word.
ExtensionOverflows(size, align) ==
  RoundUp(TrackingOffsetOf(size) + TrackerSize, align) > IsizeMax

\* C1: an alloc immediately followed by the dealloc of the pointer it returned,
\* with the same size and alignment, leaves the Pool Source's set of live
\* blocks exactly as it was before the alloc.
C1_RoundTrip == rt.st = "done" => live = rt.pre

\* A slow-path round trip has completed, for an allocation whose pointer was
\* shifted away from the pool block's base.
C1_Witness ==
  /\ rt.st = "done"
  /\ rt.align > POOL_ALIGN
  /\ \E p \in Procs : /\ Returned(p, "dealloc")
                      /\ Len(trace[p]) = 2
                      /\ trace[p][2].ev = "free_pool"
                      /\ trace[p][2].arg # op[p].ptr

\* C2: every non-null pointer a slow-path alloc returns is a multiple of the
\* requested alignment, whatever 8-byte-aligned base the Pool Source chose.
C2_SlowPathAligned ==
  \A p \in Procs :
    (Returned(p, "alloc") /\ SlowPath(p) /\ ret[p] # NULL)
      => ret[p] % op[p].align = 0

\* A slow-path alloc returned a pointer for a pool base that was not itself
\* aligned, at the base's largest possible distance from the next multiple.
C2_Witness ==
  \E p \in Procs :
    /\ Returned(p, "alloc") /\ SlowPath(p) /\ ret[p] # NULL
    /\ CalledAllocPool(p)
    /\ trace[p][1].res % op[p].align = POOL_ALIGN

\* C3: on a bound allocator a request with alignment <= 8 is passed through:
\* alloc makes exactly one alloc_pool call, with the requested size, and
\* returns the pointer it produced (null on failure); dealloc makes exactly
\* one free_pool call, with the caller's pointer, and touches no tracker.
C3_FastPathPassThrough ==
  \A p \in Procs :
    /\ (Returned(p, "alloc") /\ ~SlowPath(p) /\ Bound)
         => /\ Len(trace[p]) = 1
            /\ trace[p][1].ev = "alloc_pool"
            /\ trace[p][1].arg = op[p].size
            /\ ret[p] = IF trace[p][1].status = "SUCCESS" THEN trace[p][1].res ELSE NULL
            /\ ret[p] # NULL => [base |-> ret[p], size |-> op[p].size] \in live
    /\ (Returned(p, "dealloc") /\ ~SlowPath(p) /\ Bound)
         => /\ Len(trace[p]) = 1
            /\ trace[p][1].ev = "free_pool"
            /\ trace[p][1].arg = op[p].ptr
            /\ \A b \in live : b.base # op[p].ptr

\* A fast-path dealloc of a pointer obtained from a fast-path alloc returned.
C3_Witness ==
  \E p \in Procs :
    /\ Returned(p, "dealloc") /\ ~SlowPath(p) /\ Bound
    /\ op[p].matching /\ op[p].ptr # NULL

\* C4: after a successful slow-path alloc returning final_pointer, the record
\* at final_pointer + tracking_offset holds the signature MAGIC and the base
\* pointer the Pool Source returned for this call, which is a live block.
C4_TrackerContents ==
  \A p \in Procs :
    (Returned(p, "alloc") /\ SlowPath(p) /\ ret[p] # NULL)
      => LET tracker == ret[p] + TrackingOffsetOf(op[p].size) IN
         /\ CalledAllocPool(p)
         /\ tracker \in DOMAIN mem /\ (tracker + 8) \in DOMAIN mem
         /\ mem[tracker] = ALLOC_TRACKER_SIG
         /\ mem[tracker + 8] = trace[p][1].res
         /\ \E b \in live : b.base = trace[p][1].res

\* A slow-path alloc of a size that is padded before the tracker returned a
\* shifted pointer.
C4_Witness ==
  \E p \in Procs :
    /\ Returned(p, "alloc") /\ SlowPath(p) /\ ret[p] # NULL
    /\ TrackingOffsetOf(op[p].size) > op[p].size
    /\ CalledAllocPool(p) /\ trace[p][1].res # ret[p]

\* C5: while the allocator is not bound, alloc returns null and dealloc
\* returns, neither calls the Pool Source or touches a tracker, none traps,
\* and the Pool Source and memory are as they were at construction.
C5_Uninitialized ==
  ~Bound =>
    /\ live = {}
    /\ DOMAIN mem = {}
    /\ \A p \in Procs :
         /\ pc[p] # "panicked"
         /\ (Returned(p, "alloc") \/ Returned(p, "dealloc"))
              => ret[p] = NULL /\ trace[p] = << >>

\* The unbound allocator has served a slow-path dealloc while another caller
\* waits for the lock with a slow-path alloc.
C5_Witness ==
  /\ ~Bound
  /\ \E p, q \in Procs :
       /\ Returned(p, "dealloc") /\ SlowPath(p)
       /\ pc[q] = "spin" /\ op[q].kind = "alloc"

\* p's slow-path dealloc read a tracker record whose signature is not MAGIC.
ReadCorruptTracker(p) ==
  /\ op[p].kind = "dealloc"
  /\ trace[p] # << >>
  /\ trace[p][1].ev = "read_tracker"
  /\ trace[p][1].res # ALLOC_TRACKER_SIG

\* C6: a slow-path dealloc that reads a record whose signature is not MAGIC
\* is fatal: the call stops there and never calls free_pool.
C6_CorruptTrackerFatal ==
  \A p \in Procs :
    ReadCorruptTracker(p) => pc[p] = "panicked" /\ Len(trace[p]) = 1

\* C7: for a valid slow-path request on a bound allocator, either the request
\* cannot be extended by one tracker, and then alloc returns null and dealloc
\* returns without any Pool Source call or memory access, or the size passed
\* to alloc_pool is the mathematical sum of the extended size and the
\* alignment, which fits the address word.
C7_NoWrapping ==
  \A p \in Procs :
    LET size == op[p].size
        align == op[p].align
        expanded == TrackingOffsetOf(size) + TrackerSize + align
    IN
    /\ (Returned(p, "alloc") /\ SlowPath(p) /\ Bound)
         => IF ExtensionOverflows(size, align)
            THEN ret[p] = NULL /\ trace[p] = << >>
            ELSE /\ CalledAllocPool(p)
                 /\ trace[p][1].arg = expanded
                 /\ expanded < UsizeRange
    /\ (Returned(p, "dealloc") /\ SlowPath(p) /\ Bound /\ ExtensionOverflows(size, align))
         => trace[p] = << >>
    /\ (pc[p] = "panicked" /\ op[p].kind = "alloc") => BsPtr(boot_services) = NULL

\* A slow-path alloc asked the Pool Source for more than the largest signed
\* word, the largest request an extendable layout produces.
C7_Witness ==
  \E p \in Procs :
    /\ Returned(p, "alloc") /\ SlowPath(p) /\ Bound
    /\ ~ExtensionOverflows(op[p].size, op[p].align)
    /\ CalledAllocPool(p)
    /\ trace[p][1].arg > IsizeMax

\* Caller p's inner alloc ran in this step and its alloc_pool call reported a
\* status other than SUCCESS.
AllocPoolFailedStep(p) ==
  /\ pc[p] = "inner" /\ pc'[p] # "inner"
  /\ op[p].kind = "alloc"
  /\ trace'[p] # << >>
  /\ trace'[p][1].ev = "alloc_pool"
  /\ trace'[p][1].status # "SUCCESS"

\* C8: when alloc_pool reports a non-success status, alloc returns null having
\* called alloc_pool exactly once and nothing else: no free_pool, no tracker
\* written, and the Pool Source's live set is unchanged by the call.
C8_PoolFailurePropagates ==
  [][\A p \in Procs :
       AllocPoolFailedStep(p)
         => /\ pc'[p] = "unlock"
            /\ ret'[p] = NULL
            /\ Len(trace'[p]) = 1
            /\ live' = live
            /\ mem' = mem]_vars

\* A slow-path alloc returned after its alloc_pool call failed leaving a
\* non-null value in the output pointer.
C8_Witness ==
  \E p \in Procs :
    /\ Returned(p, "alloc") /\ SlowPath(p)
    /\ CalledAllocPool(p)
    /\ trace[p][1].status # "SUCCESS"
    /\ trace[p][1].res # NULL

\* The callers executing inside the inner allocator.
Inside == {p \in Procs : pc[p] \in {"inner", "unlock", "panicked"}}

\* C9: at most one caller at a time is inside the inner allocator, and a
\* caller inside it holds the lock.
C9_MutualExclusion ==
  /\ Cardinality(Inside) <= 1
  /\ Inside # {} => locked

\* One caller is inside the inner allocator while another spins on the lock.
C9_Witness ==
  \E p, q \in Procs : pc[p] = "inner" /\ pc[q] = "spin"

\* C10: a _log call with a non-empty message made while the logger's protocol
\* is None returns normally: it does not panic and reaches no write_log.
C10_LogBeforeInitDiscarded ==
  \A p \in Procs :
    (lop[p].kind = "log" /\ lop[p].pieces > 0 /\ protocol = None)
      => /\ lpc[p] # "panicked"
         /\ \A i \in 1..Len(written) : written[i].id # lop[p].id

\* Caller p's inner dealloc runs in this step.
DeallocStep(p) == pc[p] = "inner" /\ op[p].kind = "dealloc" /\ pc'[p] # "inner"

\* C11: the tracking offset dealloc computes for a slow-path allocation freed
\* with the layout it was allocated with is the one alloc computed: dealloc
\* looks for the record at the address where alloc wrote it, at a distance
\* from the pointer that depends on the size alone, and the block alloc asked
\* the Pool Source for has a size that depends on size and alignment alone,
\* whatever base the Pool Source chose and whatever calls were made in between.
C11_LayoutDeterminism ==
  [][\A p \in Procs : \A r \in allocs \ allocs' :
       (DeallocStep(p) /\ r.align > POOL_ALIGN)
         => /\ trace'[p] # << >>
            /\ trace'[p][1].ev = "read_tracker"
            /\ trace'[p][1].arg = r.tracker
            /\ trace'[p][1].arg - r.ptr = TrackingOffsetOf(r.size)
            /\ \E b \in live :
                 /\ b.base = r.base
                 /\ b.size = TrackingOffsetOf(r.size) + TrackerSize + r.align]_vars

\* A slow-path allocation whose pointer was shifted and whose size is padded
\* before the tracker was freed with its layout, not right after its alloc
\* and while another allocation is outstanding.
C11_Witness ==
  \E p \in Procs :
    /\ Returned(p, "dealloc") /\ SlowPath(p) /\ op[p].matching
    /\ TrackingOffsetOf(op[p].size) > op[p].size
    /\ Len(trace[p]) = 2
    /\ trace[p][2].arg # op[p].ptr
    /\ rt.st # "done"
    /\ allocs # {}

\* C12: after a successful slow-path alloc, with b the base the Pool Source
\* returned and n the size it was asked for, the block [b, b + n) is live and
\* holds both the usable region [ret, ret + size) and the whole tracker
\* record, and the pointer is shifted by less than the alignment.
C12_InBounds ==
  \A p \in Procs :
    (Returned(p, "alloc") /\ SlowPath(p) /\ ret[p] # NULL)
      => /\ Len(trace[p]) = 2
         /\ trace[p][2].ev = "write_tracker"
         /\ LET b == trace[p][1].res
                n == trace[p][1].arg
                t == trace[p][2].arg
            IN /\ [base |-> b, size |-> n] \in live
               /\ b % POOL_ALIGN = 0
               /\ b <= ret[p]
               /\ ret[p] + op[p].size <= b + n
               /\ b <= t
               /\ t + TrackerSize <= b + n
               /\ ret[p] - b < op[p].align

\* A slow-path alloc shifted its pointer as far as an 8-byte-aligned base can
\* require for an alignment of 32: the tracker then ends one pool word before
\* the end of the block, the tightest fit there is.
C12_Witness ==
  \E p \in Procs :
    /\ Returned(p, "alloc") /\ SlowPath(p) /\ ret[p] # NULL
    /\ op[p].align = 4 * POOL_ALIGN
    /\ op[p].size > 0
    /\ ret[p] - trace[p][1].res = op[p].align - POOL_ALIGN
    /\ trace[p][2].arg + TrackerSize + POOL_ALIGN = trace[p][1].res + trace[p][1].arg

\* C13: the dealloc of a held slow-path pointer with its layout returns
\* having read the record alloc wrote and called free_pool exactly once, with
\* the base the Pool Source returned to that alloc; the whole block leaves
\* the live set, no other block does, and no memory is written.
C13_SlowDeallocFreesBase ==
  [][\A p \in Procs : \A r \in allocs \ allocs' :
       (DeallocStep(p) /\ r.align > POOL_ALIGN)
         => /\ pc'[p] = "unlock"
            /\ Len(trace'[p]) = 2
            /\ trace'[p][1].ev = "read_tracker"
            /\ trace'[p][1].res = ALLOC_TRACKER_SIG
            /\ trace'[p][2].ev = "free_pool"
            /\ trace'[p][2].arg = r.base
            /\ \E b \in live : b.base = r.base
            /\ live' = {b \in live : b.base # r.base}
            /\ mem' = mem]_vars

\* A slow-path dealloc freed a base that differs from the pointer it was
\* given while another slow-path allocation stays outstanding.
C13_Witness ==
  \E p \in Procs :
    /\ Returned(p, "dealloc") /\ SlowPath(p) /\ op[p].matching
    /\ Len(trace[p]) = 2
    /\ trace[p][2].ev = "free_pool"
    /\ trace[p][2].arg # op[p].ptr
    /\ \E r \in allocs : r.align > POOL_ALIGN

\* Caller p's inner init runs in this step.
InitStep(p) == pc[p] = "inner" /\ op[p].kind = "init" /\ pc'[p] # "inner"

\* C14: boot_services changes only in a step of init, which sets it to Some of
\* the pointer it was given; alloc and dealloc leave it alone; and once it is
\* Some it is never None again.
C14_ConfigurationFrame ==
  [][/\ boot_services' # boot_services => \E p \in Procs : InitStep(p)
     /\ \A p \in Procs : InitStep(p) => boot_services' = Some(op'[p].ptr)
     /\ boot_services # None => boot_services' # None]_vars

\* An allocator that had served an allocation was bound again, this time to a
\* null table pointer.
C14_Witness ==
  \E p \in Procs :
    /\ Returned(p, "init")
    /\ op[p].ptr = NULL
    /\ allocs # {}

\* No call is in progress inside the inner allocator: every caller is outside
\* any call or still waiting for the lock.
Quiescent == \A p \in Procs : pc[p] \in {"idle", "spin"}

\* Some caller is busy-waiting for the lock.
Spinning == \E p \in Procs : pc[p] = "spin"

\* A call has panicked; it never returns and keeps the lock.
Panicked == \E p \in Procs : pc[p] = "panicked"

\* The number of calls that have returned to their callers.
Completed == ncalls - Cardinality({p \in Procs : pc[p] # "idle"})

\* C15: the lock is free whenever no call is inside the inner allocator, so
\* every call that returned, on whichever path, has released it; a free lock
\* some caller is busy-waiting for is eventually taken; and a held lock is
\* eventually released, unless the call holding it has panicked, which never
\* returns.  So a waiting caller is never blocked by a call that has returned,
\* and some pending call always eventually completes.
C15_LockReleaseAndProgress ==
  /\ [](Quiescent => ~locked)
  /\ (Spinning /\ ~locked) ~> locked
  /\ locked ~> (~locked \/ Panicked)

\* A call has returned and been released, and now an alloc that failed to
\* extend its layout has returned while the other caller is busy-waiting.
C15_Witness ==
  \E p, q \in Procs :
    /\ Completed > 0
    /\ Returned(p, "alloc") /\ SlowPath(p) /\ Bound
    /\ ExtensionOverflows(op[p].size, op[p].align)
    /\ ret[p] = NULL
    /\ pc[q] = "spin"

\* Caller p is in a call it entered from inside another call of its own.
Nested(p) == op[p].outer # << >>

\* C16: a call entered from inside a call that holds the lock never gets the
\* lock: it spins forever, the call it interrupted never resumes, the lock
\* stays held and every other caller waiting for it waits forever.
C16_ReentrancyDeadlocks ==
  [][\A p \in Procs :
       /\ Nested(p)' => (pc'[p] = "spin" /\ locked')
       /\ Nested(p) => /\ op'[p] = op[p]
                       /\ \A q \in Procs : pc[q] = "spin" => pc'[q] = "spin"]_vars

\* A caller re-entered the allocator with an alloc from a dealloc that had
\* done its work and not yet dropped the guard, while the other caller waits
\* for the lock.
C16_Witness ==
  \E p, q \in Procs :
    /\ Nested(p)
    /\ op[p].kind = "alloc"
    /\ op[p].outer[1].pc = "unlock"
    /\ op[p].outer[1].op.kind = "dealloc"
    /\ p # q /\ pc[q] = "spin"

\* The allocations callers own: those they hold, and those an alloc call has
\* produced and is about to hand over.
Outstanding ==
  allocs \cup {Allocation(p) : p \in {q \in Procs : Returned(q, "alloc") /\ ret[q] # NULL}}

\* C17: with callers that keep the contract, the Pool Source's live blocks
\* are exactly the base blocks of the outstanding allocations, one block per
\* allocation and one pointer per allocation; so a dealloc never removes the
\* block of an allocation that stays outstanding.
C17_OutstandingAllocations ==
  /\ {b.base : b \in live} = {r.base : r \in Outstanding}
  /\ Cardinality(live) = Cardinality(Outstanding)
  /\ \A r1, r2 \in Outstanding : r1 # r2 => (r1.base # r2.base /\ r1.ptr # r2.ptr)

\* After three allocations a dealloc has returned, leaving two allocations
\* outstanding, one of them on the slow path with a shifted pointer.
C17_Witness ==
  \E p \in Procs :
    /\ Returned(p, "dealloc")
    /\ trace[p] # << >>
    /\ Cardinality(allocs) = 2
    /\ Cardinality(live) = 2
    /\ \E r \in allocs : r.align > POOL_ALIGN /\ r.base # r.ptr

\* The byte ranges [a, a + m) and [b, b + n) have a byte in common.
Overlap(a, m, b, n) == m > 0 /\ n > 0 /\ a < b + n /\ b < a + m

\* The outstanding allocations made on the slow path.
Tracked == {r \in Outstanding : r.align > POOL_ALIGN}

\* C18: the tracker record of a slow-path allocation starts at or after the
\* end of its usable region, and with callers that keep the contract no
\* usable region of an outstanding allocation overlaps a tracker record, its
\* own or another's, or the usable region of another outstanding allocation.
C18_TrackerClearOfClient ==
  /\ \A r \in Tracked : r.tracker - r.ptr >= r.size
  /\ \A r \in Outstanding : \A t \in Tracked :
       ~Overlap(r.ptr, r.size, t.tracker, TrackerSize)
  /\ \A r1, r2 \in Outstanding :
       r1 # r2 => ~Overlap(r1.ptr, r1.size, r2.ptr, r2.size)

\* Two slow-path allocations are outstanding in adjacent pool blocks, the
\* pointer of the lower one shifted, so that its tracker lies between the two
\* usable regions.
C18_Witness ==
  \E r1, r2 \in Tracked :
    /\ r1.base # r1.ptr
    /\ r1.size > 0 /\ r2.size > 0
    /\ r1.ptr < r1.tracker /\ r1.tracker < r2.ptr
    /\ \E b \in live : b.base = r1.base /\ b.base + b.size = r2.base

\* The write_log calls of one message are next to each other in w and carry
\* one protocol pointer and one level.
Contiguous(w) ==
  \A i, k \in 1..Len(w) :
    (i < k /\ w[i].id = w[k].id)
      => \A j \in i..k : /\ w[j].id = w[i].id
                          /\ w[j].this = w[i].this
                          /\ w[j].level = w[i].level

\* C19: every write_log call is made by a caller formatting a message, with
\* the level that caller passed to _log and the protocol pointer init stored
\* as `this`, as the next piece of that message; and the calls of one message
\* are never interleaved with those of another.
C19_LogAtomicity ==
  [][Len(written') > Len(written) =>
       LET e == written'[Len(written')] IN
       /\ Len(written') = Len(written) + 1
       /\ \E p \in Procs : /\ lpc[p] = "fmt"
                           /\ lop[p].id = e.id
                           /\ e.level = lop[p].level
                           /\ e.piece = lop[p].done + 1
       /\ protocol = Some(e.this)
       /\ e.this \in LogInterfaces
       /\ Contiguous(written')]_vars

\* A caller is between the two write_log calls of its message while the other
\* caller waits for the lock with a message at another level.
C19_Witness ==
  \E p, q \in Procs :
    /\ lpc[p] = "fmt" /\ lop[p].pieces = 2 /\ lop[p].done = 1
    /\ Len(written) = 1
    /\ lpc[q] = "spin" /\ lop[q].kind = "log"
    /\ lop[q].level # lop[p].level

\* Caller p's inner logger init runs to its end in this step.
LogInitStep(p) == lpc[p] = "inner" /\ lop[p].kind = "init" /\ lpc'[p] = "unlock"

\* C20: a logger starts with no protocol and level DEBUG_INFO.  An init call
\* leaves the level as it is; when locate_protocol returned SUCCESS the
\* protocol is Some of the pointer it wrote, and otherwise None, whatever it
\* was before.  The level changes only in a log call.
C20_LoggerInit ==
  /\ (protocol = None /\ level = DEBUG_INFO)
  /\ [][/\ \A p \in Procs :
           (LogInitStep(p)
              => /\ level' = level
                 /\ protocol' = IF lop'[p].status = "SUCCESS"
                                 THEN Some(lop'[p].res) ELSE None)
        /\ (level' # level
              => \E q \in Procs : lpc[q] = "inner" /\ lop[q].kind = "log")]_vars

\* After an init that found the protocol and a message logged through it at
\* another level than DEBUG_INFO, a second init returned with a failed lookup
\* that left a non-null pointer behind, and the protocol is None.
C20_Witness ==
  \E p \in Procs :
    /\ lpc[p] = "unlock" /\ lop[p].kind = "init"
    /\ lop[p].status # "SUCCESS" /\ lop[p].res # NULL
    /\ protocol = None
    /\ written # << >>
    /\ level # DEBUG_INFO
====
